---------------------------- MODULE Spec2Model ----------------------------
(***************************************************************************)
(* A model of kreq.py, the Kubernetes resource reporter: the two quantity  *)
(* normalizers, the container aggregator, the node aggregator and the run  *)
(* of main().                                                              *)
(*                                                                         *)
(* Python strings are sequences of one-character strings.  Python numbers  *)
(* are exact decimals [neg, mant, scale] standing for                      *)
(*        (-1)^neg * mant / 10^scale                                       *)
(* where mant is a sequence of decimal digits, most significant first.     *)
(* Every value the code produces from the modelled inputs is a finite      *)
(* decimal (the code only multiplies by 1000 or 1024 and divides by 1024   *)
(* or 1024*1024), so the arithmetic below is exact; the rounding of        *)
(* IEEE doubles is not modelled.                                           *)
(***************************************************************************)
EXTENDS Integers, Sequences, FiniteSets, TLC

(***************************************************************************)
(* Bounds of the model.                                                    *)
(***************************************************************************)
\* longest quantity string drawn from Alphabet
MaxLen == 3
\* largest whole-core count N
MaxCores == 12
\* largest k in the memory unit families
MaxK == 3
\* most pods in a pod listing
MaxPods == 2
\* most nodes in a node listing
MaxNodes == 2

(***************************************************************************)
(* Exact decimal arithmetic.                                               *)
(***************************************************************************)
Last(s) == s[Len(s)]

Front(s) == SubSeq(s, 1, Len(s) - 1)

RECURSIVE StripLeadingZeros(_)
StripLeadingZeros(m) ==
    IF m # <<>> /\ Head(m) = 0 THEN StripLeadingZeros(Tail(m)) ELSE m

RECURSIVE Zeros(_)
Zeros(n) == IF n <= 0 THEN <<>> ELSE <<0>> \o Zeros(n - 1)

RECURSIVE NatDigits(_)
\* the decimal digits of a natural number, most significant first
NatDigits(n) == IF n = 0 THEN <<>> ELSE NatDigits(n \div 10) \o <<n % 10>>

RECURSIVE Canon(_, _, _)
\* the canonical form: no leading zero, no trailing fractional zero, zero unsigned
Canon(neg, m, scale) ==
    LET mm == StripLeadingZeros(m) IN
    IF mm = <<>> THEN [neg |-> FALSE, mant |-> <<>>, scale |-> 0]
    ELSE IF scale > 0 /\ Last(mm) = 0 THEN Canon(neg, Front(mm), scale - 1)
    ELSE [neg |-> neg, mant |-> mm, scale |-> scale]

Zero == Canon(FALSE, <<>>, 0)

FromInt(n) == IF n < 0 THEN Canon(TRUE, NatDigits(0 - n), 0) ELSE Canon(FALSE, NatDigits(n), 0)

RECURSIVE MulDigits(_, _, _)
\* digits of (m * c + carry), c a small natural
MulDigits(m, c, carry) ==
    IF m = <<>> THEN NatDigits(carry)
    ELSE LET t == Last(m) * c + carry
         IN  MulDigits(Front(m), c, t \div 10) \o <<t % 10>>

\* x * c for a natural c
MulInt(x, c) == Canon(x.neg, MulDigits(x.mant, c, 0), x.scale)

\* x / 1024, exactly: 1/1024 = 5^10 / 10^10
Div1024(x) == Canon(x.neg, MulDigits(x.mant, 9765625, 0), x.scale + 10)

\* the digits of x counted in units of 10^-scale (scale >= x.scale)
Scaled(x, scale) == x.mant \o Zeros(scale - x.scale)

\* m padded with leading zeros to n digits
Padded(m, n) == Zeros(n - Len(m)) \o m

Max(a, b) == IF a >= b THEN a ELSE b

RECURSIVE DigitsLess(_, _)
\* a < b for digit sequences of one length
DigitsLess(a, b) ==
    IF a = <<>> THEN FALSE
    ELSE IF Head(a) # Head(b) THEN Head(a) < Head(b)
    ELSE DigitsLess(Tail(a), Tail(b))

RECURSIVE AddDigits(_, _, _)
\* a + b + carry for digit sequences of one length
AddDigits(a, b, carry) ==
    IF a = <<>> THEN NatDigits(carry)
    ELSE LET t == Last(a) + Last(b) + carry
         IN  AddDigits(Front(a), Front(b), t \div 10) \o <<t % 10>>

RECURSIVE SubDigits(_, _, _)
\* a - b - borrow for digit sequences of one length, a >= b
SubDigits(a, b, borrow) ==
    IF a = <<>> THEN <<>>
    ELSE LET t == Last(a) - Last(b) - borrow
         IN  IF t < 0 THEN SubDigits(Front(a), Front(b), 1) \o <<t + 10>>
             ELSE SubDigits(Front(a), Front(b), 0) \o <<t>>

\* x + y
Add(x, y) ==
    LET scale == Max(x.scale, y.scale)
        n     == Max(Len(Scaled(x, scale)), Len(Scaled(y, scale)))
        a     == Padded(Scaled(x, scale), n)
        b     == Padded(Scaled(y, scale), n)
    IN  IF x.neg = y.neg THEN Canon(x.neg, AddDigits(a, b, 0), scale)
        ELSE IF DigitsLess(a, b) THEN Canon(y.neg, SubDigits(b, a, 0), scale)
        ELSE Canon(x.neg, SubDigits(a, b, 0), scale)

\* x >= 0
NonNegative(x) == ~x.neg

(* Python strings and JSON values.                                         *)
(***************************************************************************)
DigitChars == <<"0", "1", "2", "3", "4", "5", "6", "7", "8", "9">>

IsDigit(c) == \E i \in 1..10 : DigitChars[i] = c

DigitVal(c) == (CHOOSE i \in 1..10 : DigitChars[i] = c) - 1

\* str.lower() and str.upper() on one character
LowerChar(c) ==
    CASE c = "G" -> "g" [] c = "M" -> "m" [] c = "K" -> "k" [] c = "I" -> "i"
      [] c = "N" -> "n" [] c = "A" -> "a" [] c = "X" -> "x" [] OTHER -> c

UpperChar(c) ==
    CASE c = "g" -> "G" [] c = "m" -> "M" [] c = "k" -> "K" [] c = "i" -> "I"
      [] c = "n" -> "N" [] c = "a" -> "A" [] c = "x" -> "X" [] OTHER -> c

Lower(s) == [i \in 1..Len(s) |-> LowerChar(s[i])]

Upper(s) == [i \in 1..Len(s) |-> UpperChar(s[i])]

\* sub in s: the substring test of Python's `in`
Contains(s, sub) ==
    \E i \in 1..(Len(s) - Len(sub) + 1) : SubSeq(s, i, i + Len(sub) - 1) = sub

RECURSIVE IntChars(_)
IntChars(n) == IF n = 0 THEN <<>> ELSE IntChars(n \div 10) \o <<DigitChars[(n % 10) + 1]>>

\* str(n) of a Python int
ToStr(n) ==
    IF n = 0 THEN <<"0">> ELSE IF n < 0 THEN <<"-">> \o IntChars(0 - n) ELSE IntChars(n)

\* the values json.loads hands over: a str, an int, or None
StrVal(s) == [type |-> "str", s |-> s, n |-> 0]

IntVal(n) == [type |-> "int", s |-> <<>>, n |-> n]

None == [type |-> "NoneType", s |-> <<>>, n |-> 0]

\* the default 'N/A' of requests.get(..., 'N/A')
NA == StrVal(<<"N", "/", "A">>)

\* the outcome of a call: a returned value or an exception that propagates
Return(v) == [exc |-> "none", value |-> v]

Raise(e) == [exc |-> e, value |-> Zero]

\* re.sub(r'[^\d.-]', '', s)
StripNonNumeric(s) == SelectSeq(s, LAMBDA c : IsDigit(c) \/ c = "." \/ c = "-")

\* float(s) of a str.  Of Python's float syntax the sign, the digits and the
\* point are modelled; the strings of the model hold no exponent, blank,
\* underscore, "inf" or "nan".
ParseFloat(s) ==
    LET signed == s # <<>> /\ Head(s) \in {"-", "+"}
        body   == IF signed THEN Tail(s) ELSE s
        digits == SelectSeq(body, IsDigit)
        points == SelectSeq(body, LAMBDA c : c = ".")
        point  == CHOOSE i \in 1..Len(body) : body[i] = "."
        scale  == IF points = <<>> THEN 0 ELSE Len(body) - point
        wellFormed == /\ \A i \in 1..Len(body) : IsDigit(body[i]) \/ body[i] = "."
                      /\ Len(points) <= 1
                      /\ digits # <<>>
    IN  IF wellFormed
        THEN Return(Canon(signed /\ Head(s) = "-",
                          [i \in 1..Len(digits) |-> DigitVal(digits[i])], scale))
        ELSE Raise("ValueError")

\* float(x) of a JSON value
Float(x) ==
    CASE x.type = "str" -> ParseFloat(x.s)
      [] x.type = "int" -> Return(FromInt(x.n))
      [] OTHER -> Raise("TypeError")

(***************************************************************************)
(* The quantity normalizers.                                               *)
(***************************************************************************)
\* a faulty variant: a value that is no string is not scaled to millicores
convert_cpu_to_millicores_unscaled(cpu_value) ==
    IF cpu_value = NA THEN Return(Zero)
    ELSE IF cpu_value.type = "str"
    THEN LET num_str == StripNonNumeric(Lower(cpu_value.s))
             num     == ParseFloat(num_str)
         IN  IF num_str = <<>> THEN Return(Zero)
             ELSE IF num.exc = "ValueError" THEN Return(Zero)
             ELSE IF Contains(Lower(cpu_value.s), <<"m">>) THEN Return(num.value)
             ELSE Return(MulInt(num.value, 1000))
    ELSE Float(cpu_value)

convert_cpu_to_millicores(cpu_value) ==
    IF cpu_value = NA THEN Return(Zero)
    ELSE IF cpu_value.type = "str"
    THEN LET num_str == StripNonNumeric(Lower(cpu_value.s))
             num     == ParseFloat(num_str)
         IN  IF num_str = <<>> THEN Return(Zero)
             ELSE IF num.exc = "ValueError" THEN Return(Zero)
             ELSE IF Contains(Lower(cpu_value.s), <<"m">>) THEN Return(num.value)
             ELSE Return(MulInt(num.value, 1000))
    ELSE LET num == Float(cpu_value)
         IN  IF num.exc # "none" THEN num ELSE Return(MulInt(num.value, 1000))

\* a faulty variant: the marker Mi is looked for before Gi
convert_memory_to_mebibytes_mi_first(memory_value) ==
    IF memory_value = NA THEN Return(Zero)
    ELSE IF memory_value.type = "str"
    THEN LET upper == Upper(memory_value.s)
             num   == ParseFloat(StripNonNumeric(upper))
             bytes == ParseFloat(upper)
         IN  IF Contains(upper, <<"M", "I">>)
             THEN IF num.exc # "none" THEN num ELSE Return(num.value)
             ELSE IF Contains(upper, <<"G", "I">>)
             THEN IF num.exc # "none" THEN num ELSE Return(MulInt(num.value, 1024))
             ELSE IF Contains(upper, <<"K", "I">>)
             THEN IF num.exc # "none" THEN num ELSE Return(Div1024(num.value))
             ELSE IF bytes.exc = "ValueError" THEN Return(Zero)
             ELSE Return(Div1024(Div1024(bytes.value)))
    ELSE LET bytes == Float(memory_value)
         IN  IF bytes.exc = "ValueError" THEN Return(Zero)
             ELSE IF bytes.exc # "none" THEN bytes
             ELSE Return(Div1024(Div1024(bytes.value)))

convert_memory_to_mebibytes(memory_value) ==
    IF memory_value = NA THEN Return(Zero)
    ELSE IF memory_value.type = "str"
    THEN LET upper == Upper(memory_value.s)
             num   == ParseFloat(StripNonNumeric(upper))
             bytes == ParseFloat(upper)
         IN  IF Contains(upper, <<"G", "I">>)
             THEN IF num.exc # "none" THEN num ELSE Return(MulInt(num.value, 1024))
             ELSE IF Contains(upper, <<"M", "I">>)
             THEN IF num.exc # "none" THEN num ELSE Return(num.value)
             ELSE IF Contains(upper, <<"K", "I">>)
             THEN IF num.exc # "none" THEN num ELSE Return(Div1024(num.value))
             ELSE IF bytes.exc = "ValueError" THEN Return(Zero)
             ELSE Return(Div1024(Div1024(bytes.value)))
    ELSE LET bytes == Float(memory_value)
         IN  IF bytes.exc = "ValueError" THEN Return(Zero)
             ELSE IF bytes.exc # "none" THEN bytes
             ELSE Return(Div1024(Div1024(bytes.value)))

(***************************************************************************)
(* JSON objects are functions from keys to values; d.get(k, default).      *)
(***************************************************************************)
Get(d, k, default) == IF k \in DOMAIN d THEN d[k] ELSE default

\* the empty dict {}
EmptyDict == [k \in {} |-> None]

\* the label key that marks a control-plane node
ControlPlaneLabel == "node-role.kubernetes.io/control-plane"

(***************************************************************************)
(* The aggregator over a pod listing.                                      *)
(***************************************************************************)
\* a faulty variant: the totals are assigned, not accumulated
ParseContainerAssigningTotals(acc, namespace, pod_name, node_name, container) ==
    LET requests         == Get(Get(container, "resources", EmptyDict), "requests", EmptyDict)
        cpu              == Get(requests, "cpu", NA)
        memory           == Get(requests, "memory", NA)
        cpu_millicores   == convert_cpu_to_millicores(cpu)
        memory_mebibytes == convert_memory_to_mebibytes(memory)
        full_name        == namespace \o <<"/">> \o pod_name \o <<"/">> \o container.name
    IN  IF cpu_millicores.exc # "none" THEN [acc EXCEPT !.exc = cpu_millicores.exc]
        ELSE IF memory_mebibytes.exc # "none" THEN [acc EXCEPT !.exc = memory_mebibytes.exc]
        ELSE [exc |-> "none",
              containers |-> Append(acc.containers,
                                    [full_name        |-> full_name,
                                     node_name        |-> node_name,
                                     cpu              |-> cpu,
                                     memory           |-> memory,
                                     cpu_millicores   |-> cpu_millicores.value,
                                     memory_mebibytes |-> memory_mebibytes.value]),
              total_cpu_millicores   |-> cpu_millicores.value,
              total_memory_mebibytes |-> memory_mebibytes.value]

\* one pass of the inner loop: the record of one container added to acc
ParseContainer(acc, namespace, pod_name, node_name, container) ==
    LET requests         == Get(Get(container, "resources", EmptyDict), "requests", EmptyDict)
        cpu              == Get(requests, "cpu", NA)
        memory           == Get(requests, "memory", NA)
        cpu_millicores   == convert_cpu_to_millicores(cpu)
        memory_mebibytes == convert_memory_to_mebibytes(memory)
        full_name        == namespace \o <<"/">> \o pod_name \o <<"/">> \o container.name
    IN  IF cpu_millicores.exc # "none" THEN [acc EXCEPT !.exc = cpu_millicores.exc]
        ELSE IF memory_mebibytes.exc # "none" THEN [acc EXCEPT !.exc = memory_mebibytes.exc]
        ELSE [exc |-> "none",
              containers |-> Append(acc.containers,
                                    [full_name        |-> full_name,
                                     node_name        |-> node_name,
                                     cpu              |-> cpu,
                                     memory           |-> memory,
                                     cpu_millicores   |-> cpu_millicores.value,
                                     memory_mebibytes |-> memory_mebibytes.value]),
              total_cpu_millicores   |-> Add(acc.total_cpu_millicores, cpu_millicores.value),
              total_memory_mebibytes |-> Add(acc.total_memory_mebibytes, memory_mebibytes.value)]

RECURSIVE ParseContainers(_, _, _, _, _)
\* the inner loop over item['spec']['containers']; an exception ends it
ParseContainers(acc, namespace, pod_name, node_name, containers) ==
    IF containers = <<>> \/ acc.exc # "none" THEN acc
    ELSE ParseContainers(ParseContainer(acc, namespace, pod_name, node_name, Head(containers)),
                         namespace, pod_name, node_name, Tail(containers))

RECURSIVE ParseItems(_, _)
\* the outer loop over pod_data['items']
ParseItems(acc, items) ==
    IF items = <<>> \/ acc.exc # "none" THEN acc
    ELSE LET item == Head(items)
         IN  ParseItems(ParseContainers(acc,
                                        item.metadata.namespace,
                                        item.metadata.name,
                                        Get(item.spec, "nodeName", <<"N", "/", "A">>),
                                        item.spec.containers),
                        Tail(items))

\* the call: exc is the exception that leaves it, "none" when it returns
\* (containers, total_cpu_millicores, total_memory_mebibytes)
parse_container_resources(pod_data) ==
    ParseItems([exc |-> "none",
                containers |-> <<>>,
                total_cpu_millicores |-> Zero,
                total_memory_mebibytes |-> Zero],
               pod_data.items)

(***************************************************************************)
(* The aggregator over a node listing.                                     *)
(***************************************************************************)
\* d[name] = value on a dict kept as the sequence of its items in insertion order
DictSet(d, name, value) ==
    IF \E i \in 1..Len(d) : d[i].key = name
    THEN [i \in 1..Len(d) |-> IF d[i].key = name THEN [key |-> name, value |-> value] ELSE d[i]]
    ELSE Append(d, [key |-> name, value |-> value])

\* a faulty variant: the label of the older releases is looked for, so a
\* control-plane node is not skipped
NodeStepLookingForMaster(acc, node) ==
    LET name               == node.metadata.name
        allocatable        == node.status.allocatable
        capacity           == node.status.capacity
        allocatable_cpu    == convert_cpu_to_millicores(Get(allocatable, "cpu", StrVal(<<"0">>)))
        allocatable_memory == convert_memory_to_mebibytes(Get(allocatable, "memory", StrVal(<<"0">>)))
        capacity_cpu       == convert_cpu_to_millicores(Get(capacity, "cpu", StrVal(<<"0">>)))
        capacity_memory    == convert_memory_to_mebibytes(Get(capacity, "memory", StrVal(<<"0">>)))
        raised             == SelectSeq(<<allocatable_cpu.exc, allocatable_memory.exc,
                                          capacity_cpu.exc, capacity_memory.exc>>,
                                        LAMBDA e : e # "none")
    IN  IF "node-role.kubernetes.io/master" \in DOMAIN Get(node.metadata, "labels", EmptyDict)
        THEN acc
        ELSE IF raised # <<>> THEN [acc EXCEPT !.exc = Head(raised)]
        ELSE [acc EXCEPT !.node_resources =
                  DictSet(@, name, [allocatable_cpu    |-> allocatable_cpu.value,
                                    allocatable_memory |-> allocatable_memory.value,
                                    capacity_cpu       |-> capacity_cpu.value,
                                    capacity_memory    |-> capacity_memory.value])]

\* one pass of the loop of get_node_resources
NodeStep(acc, node) ==
    LET name               == node.metadata.name
        allocatable        == node.status.allocatable
        capacity           == node.status.capacity
        allocatable_cpu    == convert_cpu_to_millicores(Get(allocatable, "cpu", StrVal(<<"0">>)))
        allocatable_memory == convert_memory_to_mebibytes(Get(allocatable, "memory", StrVal(<<"0">>)))
        capacity_cpu       == convert_cpu_to_millicores(Get(capacity, "cpu", StrVal(<<"0">>)))
        capacity_memory    == convert_memory_to_mebibytes(Get(capacity, "memory", StrVal(<<"0">>)))
        raised             == SelectSeq(<<allocatable_cpu.exc, allocatable_memory.exc,
                                          capacity_cpu.exc, capacity_memory.exc>>,
                                        LAMBDA e : e # "none")
    IN  IF ControlPlaneLabel \in DOMAIN Get(node.metadata, "labels", EmptyDict) THEN acc
        ELSE IF raised # <<>> THEN [acc EXCEPT !.exc = Head(raised)]
        ELSE [acc EXCEPT !.node_resources =
                  DictSet(@, name, [allocatable_cpu    |-> allocatable_cpu.value,
                                    allocatable_memory |-> allocatable_memory.value,
                                    capacity_cpu       |-> capacity_cpu.value,
                                    capacity_memory    |-> capacity_memory.value])]

RECURSIVE NodeLoop(_, _)
NodeLoop(acc, items) ==
    IF items = <<>> \/ acc.exc # "none" THEN acc
    ELSE NodeLoop(NodeStep(acc, Head(items)), Tail(items))

\* get_node_resources once get_node_data has returned node_data
node_resources_of(node_data) ==
    NodeLoop([exc |-> "none", node_resources |-> <<>>], node_data.items)

RECURSIVE NodeTotals(_, _)
\* the sums print_report takes over node_resources.items()
NodeTotals(acc, d) ==
    IF d = <<>> THEN acc
    ELSE NodeTotals([total_alloc_cpu    |-> Add(acc.total_alloc_cpu, Head(d).value.allocatable_cpu),
                     total_alloc_mem    |-> Add(acc.total_alloc_mem, Head(d).value.allocatable_memory),
                     total_capacity_cpu |-> Add(acc.total_capacity_cpu, Head(d).value.capacity_cpu),
                     total_capacity_mem |-> Add(acc.total_capacity_mem, Head(d).value.capacity_memory)],
                    Tail(d))

ZeroTotals ==
    [total_alloc_cpu |-> Zero, total_alloc_mem |-> Zero,
     total_capacity_cpu |-> Zero, total_capacity_mem |-> Zero]

(***************************************************************************)
(* The inputs.                                                             *)
(***************************************************************************)
\* the characters quantity strings are drawn from
Alphabet == {"0", "1", "5", ".", "-", "m", "M", "G", "K", "i"}

\* every string over Alphabet of at most n characters
Strings(n) == UNION {[1..k -> Alphabet] : k \in 0..n}

\* the quantity strings the specification names
CpuExamples ==
    { <<"5", "0", "0", "m">>, <<"0", ".", "5">>, <<"2">>, <<>>,
      <<"g", "a", "r", "b", "a", "g", "e">>, <<"1", ".", "2", ".", "3">>, <<"-">> }

MemoryExamples ==
    { <<"1", "G", "i">>, <<"1", "0", "2", "4", "M", "i">>, ToStr(1048576) \o <<"K", "i">>,
      <<"1", ".", "5", "G", "i">>, <<"1", "5", "3", "6", "M", "i">>,
      <<"G", "i">>, <<"a", "b", "c", "M", "i">>, <<"1", ".", "2", ".", "3", "K", "i">> }

\* every value a normalizer is called with: strings, ints, None and 'N/A'
Quantities(examples) ==
    {StrVal(s) : s \in Strings(MaxLen) \cup examples}
        \cup {IntVal(n) : n \in 0..MaxCores} \cup {None, NA}

\* the spellings of the memory unit markers
Spellings(unit) ==
    {<<unit, "i">>, <<unit, "I">>, <<LowerChar(unit), "i">>, <<LowerChar(unit), "I">>}

Markers == Spellings("G") \cup Spellings("M") \cup Spellings("K")

\* the decimal string of a non-negative decimal without fraction
DigitString(x) == IF x.mant = <<>> THEN <<"0">> ELSE [i \in 1..Len(x.mant) |-> DigitChars[x.mant[i] + 1]]

\* str(k * 2^30), a byte count
GibibytesInBytes(k) == DigitString(MulInt(MulInt(MulInt(FromInt(k), 1024), 1024), 1024))

\* the 'requests' a container may carry
RequestDicts ==
    {EmptyDict}
        \cup {[cpu |-> StrVal(c)] : c \in {<<"5", "0", "0", "m">>, <<"1">>, <<"-", "1">>}}
        \cup {[memory |-> StrVal(m)] : m \in {<<"1", "2", "8", "M", "i">>, <<"1", "G", "i">>, <<"G", "i">>}}
        \cup {[cpu |-> StrVal(<<"5", "0", "0", "m">>), memory |-> StrVal(<<"1", "2", "8", "M", "i">>)],
              [cpu |-> StrVal(<<"1">>), memory |-> StrVal(<<"1", "G", "i">>)],
              [cpu |-> StrVal(<<"0", ".", "5">>), memory |-> StrVal(<<"-", "1", "M", "i">>)]}

Container(j, fields) == [k \in {"name"} \cup DOMAIN fields |->
                            IF k = "name" THEN <<"c">> \o ToStr(j) ELSE fields[k]]

\* the containers of one pod: one container of any shape, or two with requests
ContainerLists ==
    {<<Container(1, EmptyDict)>>, <<Container(1, [resources |-> EmptyDict])>>}
        \cup {<<Container(1, [resources |-> [requests |-> r]])>> : r \in RequestDicts}
        \cup {<<Container(1, [resources |-> [requests |-> r1]]),
                Container(2, [resources |-> [requests |-> r2]])>> :
                r1 \in {[cpu |-> StrVal(<<"5", "0", "0", "m">>), memory |-> StrVal(<<"1", "2", "8", "M", "i">>)],
                        [cpu |-> StrVal(<<"1">>), memory |-> StrVal(<<"G", "i">>)]},
                r2 \in {[cpu |-> StrVal(<<"1">>), memory |-> StrVal(<<"1", "G", "i">>)],
                        EmptyDict}}

\* the i-th pod of a listing; a pod not yet scheduled has no nodeName
Pod(i, containers, scheduled) ==
    [metadata |-> [namespace |-> <<"n", "s">>, name |-> <<"p">> \o ToStr(9 - i)],
     spec     |-> IF scheduled
                  THEN [nodeName |-> <<"w", "1">>, containers |-> containers]
                  ELSE [containers |-> containers]]

PodsAt(i) ==
    {Pod(i, cs, TRUE) : cs \in ContainerLists}
        \cup {Pod(i, <<Container(1, [resources |-> [requests |-> EmptyDict]])>>, FALSE)}

RECURSIVE PodItems(_)
\* the item lists of exactly n pods
PodItems(n) ==
    IF n = 0 THEN {<<>>} ELSE {Append(items, p) : items \in PodItems(n - 1), p \in PodsAt(n)}

\* the pod listings `kubectl get pods -o json` may print, of at most n pods
PodListings(n) == {[items |-> items] : items \in UNION {PodItems(k) : k \in 0..n}}

\* the labels and the status a node may carry
LabelDicts ==
    {[k \in {ControlPlaneLabel} |-> StrVal(<<>>)],
     [k \in {"node-role.kubernetes.io/worker"} |-> StrVal(<<>>)]}

Statuses ==
    {[allocatable |-> [cpu |-> StrVal(<<"3", "8", "0", "0", "m">>),
                       memory |-> StrVal(ToStr(16000000) \o <<"K", "i">>)],
      capacity    |-> [cpu |-> StrVal(<<"4">>), memory |-> StrVal(<<"1", "6", "G", "i">>)]],
     [allocatable |-> EmptyDict, capacity |-> EmptyDict],
     [allocatable |-> [cpu |-> StrVal(<<"2">>), memory |-> StrVal(<<"G", "i">>)],
      capacity    |-> [cpu |-> StrVal(<<"2">>), memory |-> StrVal(<<"4", "G", "i">>)]]}

\* the i-th node of a listing, with or without labels
NodesAt(i) ==
    {[metadata |-> [name |-> <<"n">> \o ToStr(9 - i)], status |-> s] : s \in Statuses}
        \cup {[metadata |-> [name |-> <<"n">> \o ToStr(9 - i), labels |-> l], status |-> s] :
                l \in LabelDicts, s \in Statuses}

RECURSIVE NodeItems(_)
NodeItems(n) ==
    IF n = 0 THEN {<<>>} ELSE {Append(items, nd) : items \in NodeItems(n - 1), nd \in NodesAt(n)}

\* the node listings `kubectl get nodes -o json` may print, of at most n nodes
NodeListings(n) == {[items |-> items] : items \in UNION {NodeItems(k) : k \in 0..n}}

Reverse(s) == [i \in 1..Len(s) |-> s[Len(s) + 1 - i]]

\* the listing with its pods, and the containers of each pod, in the opposite order
Reordered(pod_data) ==
    [items |-> Reverse([i \in 1..Len(pod_data.items) |->
                          [pod_data.items[i] EXCEPT !.spec.containers = Reverse(@)]])]

(***************************************************************************)
(* The state.  A run of main() is pc, args and the values main and         *)
(* print_report hold (locals names the ones bound so far; exit_code is the *)
(* status once pc is "done" or "exited"), with what the process has        *)
(* written and the kubectl commands it has run, each with how it ended.    *)
(* A call of one function taken alone is op, arg                           *)
(* (what the inputs were drawn from), inp (the values passed) and out      *)
(* (the outcomes).                                                         *)
(***************************************************************************)
VARIABLES pc, locals, args, pod_data, containers, total_cpu, total_memory,
          node_data, node_resources, node_totals,
          stdout, stderr, exit_code, kubectl,
          op, arg, inp, out

runVars == <<pc, locals, args, pod_data, containers, total_cpu, total_memory,
             node_data, node_resources, node_totals,
             stdout, stderr, exit_code, kubectl>>

callVars == <<op, arg, inp, out>>

vars == <<runVars, callVars>>

InitRun ==
    /\ pc = "parse_arguments"
    /\ locals = {}
    /\ args = [namespace |-> <<>>, wide |-> FALSE]
    /\ pod_data = [items |-> <<>>]
    /\ containers = <<>>
    /\ total_cpu = Zero
    /\ total_memory = Zero
    /\ node_data = [items |-> <<>>]
    /\ node_resources = <<>>
    /\ node_totals = ZeroTotals
    /\ stdout = <<>>
    /\ stderr = <<>>
    /\ exit_code = 0
    /\ kubectl = <<>>

InitCalls ==
    /\ op = "none"
    /\ arg = <<>>
    /\ inp = <<>>
    /\ out = <<>>

Init == InitRun /\ InitCalls

(***************************************************************************)
(* Calls of one function.                                                  *)
(***************************************************************************)
\* each call starts from the state before any call
CallCpu ==
    /\ op = "none"
    /\ \E v \in Quantities(CpuExamples) :
           /\ op' = "convert_cpu_to_millicores"
           /\ arg' = <<>>
           /\ inp' = <<v>>
           /\ out' = <<convert_cpu_to_millicores(v)>>
    /\ UNCHANGED runVars

CallMemory ==
    /\ op = "none"
    /\ \E v \in Quantities(MemoryExamples) :
           /\ op' = "convert_memory_to_mebibytes"
           /\ arg' = <<>>
           /\ inp' = <<v>>
           /\ out' = <<convert_memory_to_mebibytes(v)>>
    /\ UNCHANGED runVars

\* convert_cpu_to_millicores on a whole-core count N and on str(N)
CallCpuWholeCores ==
    /\ op = "none"
    /\ \E N \in 0..MaxCores :
           /\ op' = "cpu_whole_cores"
           /\ arg' = <<N>>
           /\ inp' = <<IntVal(N), StrVal(ToStr(N))>>
           /\ out' = <<convert_cpu_to_millicores(IntVal(N)),
                       convert_cpu_to_millicores(StrVal(ToStr(N)))>>
    /\ UNCHANGED runVars

\* convert_memory_to_mebibytes on one amount written in Gi, Mi, Ki and bytes
CallMemoryUnits ==
    /\ op = "none"
    /\ \E k \in 0..MaxK, gi \in Spellings("G"), mi \in Spellings("M"), ki \in Spellings("K") :
           /\ op' = "memory_units"
           /\ arg' = <<k>>
           /\ inp' = <<StrVal(ToStr(k) \o gi),
                       StrVal(ToStr(1024 * k) \o mi),
                       StrVal(ToStr(1048576 * k) \o ki),
                       StrVal(GibibytesInBytes(k))>>
           /\ out' = [i \in 1..4 |-> convert_memory_to_mebibytes(inp'[i])]
    /\ UNCHANGED runVars

\* convert_memory_to_mebibytes on a magnitude followed by two unit markers
CallMemoryMarkers ==
    /\ op = "none"
    /\ \E k \in 0..MaxK, m1 \in Markers, m2 \in Markers :
           /\ op' = "memory_markers"
           /\ arg' = <<k, Upper(m1), Upper(m2)>>
           /\ inp' = <<StrVal(ToStr(k) \o m1 \o m2)>>
           /\ out' = <<convert_memory_to_mebibytes(inp'[1])>>
    /\ UNCHANGED runVars

\* parse_container_resources on a pod listing and on the same pods in the opposite order
CallParseContainerResources ==
    /\ op = "none"
    /\ \E listing \in PodListings(MaxPods) :
           /\ op' = "parse_container_resources"
           /\ arg' = <<>>
           /\ inp' = <<listing, Reordered(listing)>>
           /\ out' = <<parse_container_resources(listing),
                       parse_container_resources(Reordered(listing))>>
    /\ UNCHANGED runVars

\* the loop of get_node_resources and the sums of print_report on a node listing
CallNodeResources ==
    /\ op = "none"
    /\ \E listing \in NodeListings(MaxNodes) :
           /\ op' = "get_node_resources"
           /\ arg' = <<>>
           /\ inp' = <<listing>>
           /\ out' = <<[exc            |-> node_resources_of(listing).exc,
                        node_resources |-> node_resources_of(listing).node_resources,
                        totals         |-> NodeTotals(ZeroTotals,
                                                      node_resources_of(listing).node_resources)]>>
    /\ UNCHANGED runVars

NextCalls ==
    \/ CallCpu
    \/ CallMemory
    \/ CallCpuWholeCores
    \/ CallMemoryUnits
    \/ CallMemoryMarkers
    \/ CallParseContainerResources
    \/ CallNodeResources

SpecCalls == Init /\ [][NextCalls]_vars

(***************************************************************************)
(* A run of main().                                                        *)
(***************************************************************************)
MAX_NAME_COL_WIDTH == 80

\* what subprocess.run may hand back: a non-zero status, or status 0 with a
\* standard output that json.loads decodes or does not
Completed(listings) ==
    {[returncode |-> 1, decodes |-> FALSE, json |-> [items |-> <<>>]],
     [returncode |-> 0, decodes |-> FALSE, json |-> [items |-> <<>>]]}
        \cup {[returncode |-> 0, decodes |-> TRUE, json |-> l] : l \in listings}

\* the listings a run is given
RunPodListings == PodListings(1)

RunNodeListings == NodeListings(2)

\* the characters of names, in the order of their code points
CodePoints == <<"/", "0", "1", "2", "3", "4", "5", "6", "7", "8", "9", "c", "n", "p", "s", "w">>

Ord(c) == CHOOSE i \in 1..Len(CodePoints) : CodePoints[i] = c

RECURSIVE StrLess(_, _)
\* a < b on strings
StrLess(a, b) ==
    IF b = <<>> THEN FALSE
    ELSE IF a = <<>> THEN TRUE
    ELSE IF Head(a) # Head(b) THEN Ord(Head(a)) < Ord(Head(b))
    ELSE StrLess(Tail(a), Tail(b))

RECURSIVE Insert(_, _)
Insert(sorted, c) ==
    IF sorted = <<>> THEN <<c>>
    ELSE IF StrLess(c.full_name, Head(sorted).full_name) THEN <<c>> \o sorted
    ELSE <<Head(sorted)>> \o Insert(Tail(sorted), c)

RECURSIVE SortedByFullName(_)
\* sorted(containers, key=lambda x: x['full_name']), a stable sort
SortedByFullName(cs) ==
    IF cs = <<>> THEN <<>> ELSE Insert(SortedByFullName(Front(cs)), Last(cs))

RECURSIVE MaxLength(_, _)
MaxLength(cs, default) ==
    IF cs = <<>> THEN default
    ELSE Max(Len(Head(cs).full_name), MaxLength(Tail(cs), 0))

Min(a, b) == IF a <= b THEN a ELSE b

\* the name as a row shows it
NameTrimmed(full_name, name_col_width) ==
    IF Len(full_name) > name_col_width
    THEN SubSeq(full_name, 1, name_col_width - 3) \o <<".", ".", ".">>
    ELSE full_name

\* the rows print_report writes for the containers
ContainerRows(cs, wide) ==
    LET name_col_width == Min(MaxLength(cs, 30), MAX_NAME_COL_WIDTH)
        sorted         == SortedByFullName(cs)
    IN  [i \in 1..Len(cs) |->
            [line             |-> "container",
             name             |-> NameTrimmed(sorted[i].full_name, name_col_width),
             node_name        |-> IF wide THEN sorted[i].node_name ELSE <<>>,
             cpu              |-> sorted[i].cpu,
             memory           |-> sorted[i].memory,
             cpu_millicores   |-> sorted[i].cpu_millicores,
             memory_mebibytes |-> sorted[i].memory_mebibytes]]

\* the rows print_report writes for the nodes
NodeRows(d) ==
    [i \in 1..Len(d) |-> [line |-> "node", name |-> d[i].key, resources |-> d[i].value]]

Line(text) == [line |-> text]

\* x > 0
Positive(x) == ~x.neg /\ x.mant # <<>>

\* an exception nothing catches: the traceback goes to standard error, the status is 1
Uncaught(exception) ==
    /\ stderr' = Append(stderr, [line |-> "Traceback", exception |-> exception])
    /\ exit_code' = 1
    /\ pc' = "exited"

\* parse_arguments(): -n/--namespace and --wide
ParseArguments ==
    /\ pc = "parse_arguments"
    /\ \E namespace \in {<<>>, <<"n", "s">>}, wide \in BOOLEAN :
           args' = [namespace |-> namespace, wide |-> wide]
    /\ locals' = locals \cup {"args"}
    /\ pc' = "get_pod_data"
    /\ UNCHANGED <<pod_data, containers, total_cpu, total_memory, node_data, node_resources,
                   node_totals, stdout, stderr, exit_code, kubectl, callVars>>

\* the command get_pod_data runs; <<>> stands for the namespace None
PodCommand(namespace) ==
    <<"kubectl", "get", "pods", "-o", "json">>
        \o (IF namespace # <<>> THEN <<"-n", namespace>> ELSE <<"-A">>)

\* get_pod_data(args.namespace)
GetPodData ==
    /\ pc = "get_pod_data"
    /\ \E result \in Completed(RunPodListings) :
        /\ kubectl' = Append(kubectl, [cmd        |-> PodCommand(args.namespace),
                                       returncode |-> result.returncode,
                                       decodes    |-> result.decodes])
        /\ \/ /\ result.returncode # 0
              /\ stdout' = Append(stdout, Line("Error getting pod data"))
              /\ exit_code' = 1
              /\ pc' = "exited"
              /\ UNCHANGED <<locals, pod_data, stderr>>
           \/ /\ result.returncode = 0
              /\ ~result.decodes
              /\ Uncaught("JSONDecodeError")
              /\ UNCHANGED <<locals, pod_data, stdout>>
           \/ /\ result.returncode = 0
              /\ result.decodes
              /\ pod_data' = result.json
              /\ locals' = locals \cup {"pod_data"}
              /\ pc' = "parse_container_resources"
              /\ UNCHANGED <<stdout, stderr, exit_code>>
    /\ UNCHANGED <<args, containers, total_cpu, total_memory, node_data, node_resources,
                   node_totals, callVars>>

\* containers, total_cpu, total_memory = parse_container_resources(pod_data)
ParseContainerResources ==
    /\ pc = "parse_container_resources"
    /\ LET result == parse_container_resources(pod_data)
       IN  \/ /\ result.exc # "none"
              /\ Uncaught(result.exc)
              /\ UNCHANGED <<locals, containers, total_cpu, total_memory>>
           \/ /\ result.exc = "none"
              /\ containers' = result.containers
              /\ total_cpu' = result.total_cpu_millicores
              /\ total_memory' = result.total_memory_mebibytes
              /\ locals' = locals \cup {"containers", "total_cpu", "total_memory"}
              /\ pc' = "print_report"
              /\ UNCHANGED <<stderr, exit_code>>
    /\ UNCHANGED <<args, pod_data, node_data, node_resources, node_totals, stdout, kubectl,
                   callVars>>

\* print_report up to its call of get_node_resources: the title, the header
\* and one row for each container
PrintContainers ==
    /\ pc = "print_report"
    /\ stdout' = stdout
                    \o <<[line |-> "KUBERNETES RESOURCES REPORT", namespace |-> args.namespace],
                         Line("="), Line("header"), Line("-")>>
                    \o ContainerRows(containers, args.wide)
                    \o (IF args.wide THEN <<Line("NODE RESOURCES:"), Line("=")>> ELSE <<>>)
    /\ pc' = IF args.wide THEN "get_node_resources" ELSE "summary"
    /\ UNCHANGED <<locals, args, pod_data, containers, total_cpu, total_memory, node_data,
                   node_resources, node_totals, stderr, exit_code, kubectl, callVars>>

\* a faulty variant: a non-zero status of kubectl is reported and the run
\* goes on as if no node had been listed
GetNodeResourcesGoingOn ==
    /\ pc = "get_node_resources"
    /\ \E result \in Completed(RunNodeListings) :
        /\ kubectl' = Append(kubectl, [cmd        |-> <<"kubectl", "get", "nodes", "-o", "json">>,
                                       returncode |-> result.returncode,
                                       decodes    |-> result.decodes])
        /\ \/ /\ result.returncode # 0
              /\ stdout' = Append(stdout, Line("Error getting node data"))
              /\ node_resources' = <<>>
              /\ locals' = locals \cup {"node_resources"}
              /\ pc' = "summary"
              /\ UNCHANGED <<node_data, stderr, exit_code>>
           \/ /\ result.returncode = 0
              /\ ~result.decodes
              /\ Uncaught("JSONDecodeError")
              /\ UNCHANGED <<locals, node_data, node_resources, stdout>>
           \/ /\ result.returncode = 0
              /\ result.decodes
              /\ node_resources_of(result.json).exc # "none"
              /\ node_data' = result.json
              /\ locals' = locals \cup {"node_data"}
              /\ Uncaught(node_resources_of(result.json).exc)
              /\ UNCHANGED <<node_resources, stdout>>
           \/ /\ result.returncode = 0
              /\ result.decodes
              /\ node_resources_of(result.json).exc = "none"
              /\ node_data' = result.json
              /\ node_resources' = node_resources_of(result.json).node_resources
              /\ locals' = locals \cup {"node_data", "node_resources"}
              /\ pc' = "summary"
              /\ UNCHANGED <<stdout, stderr, exit_code>>
    /\ UNCHANGED <<args, pod_data, containers, total_cpu, total_memory, node_totals, callVars>>

\* node_resources = get_node_resources(): get_node_data() and the loop over its items
GetNodeResources ==
    /\ pc = "get_node_resources"
    /\ \E result \in Completed(RunNodeListings) :
        /\ kubectl' = Append(kubectl, [cmd        |-> <<"kubectl", "get", "nodes", "-o", "json">>,
                                       returncode |-> result.returncode,
                                       decodes    |-> result.decodes])
        /\ \/ /\ result.returncode # 0
              /\ stdout' = Append(stdout, Line("Error getting node data"))
              /\ exit_code' = 1
              /\ pc' = "exited"
              /\ UNCHANGED <<locals, node_data, node_resources, stderr>>
           \/ /\ result.returncode = 0
              /\ ~result.decodes
              /\ Uncaught("JSONDecodeError")
              /\ UNCHANGED <<locals, node_data, node_resources, stdout>>
           \/ /\ result.returncode = 0
              /\ result.decodes
              /\ node_resources_of(result.json).exc # "none"
              /\ node_data' = result.json
              /\ locals' = locals \cup {"node_data"}
              /\ Uncaught(node_resources_of(result.json).exc)
              /\ UNCHANGED <<node_resources, stdout>>
           \/ /\ result.returncode = 0
              /\ result.decodes
              /\ node_resources_of(result.json).exc = "none"
              /\ node_data' = result.json
              /\ node_resources' = node_resources_of(result.json).node_resources
              /\ locals' = locals \cup {"node_data", "node_resources"}
              /\ pc' = "summary"
              /\ UNCHANGED <<stdout, stderr, exit_code>>
    /\ UNCHANGED <<args, pod_data, containers, total_cpu, total_memory, node_totals, callVars>>

\* the rest of print_report: the node rows and their sums, the summary, the
\* utilization and the count of containers; then main returns
PrintSummary ==
    /\ pc = "summary"
    /\ LET listed == args.wide /\ node_resources # <<>>
           totals == IF listed THEN NodeTotals(ZeroTotals, node_resources) ELSE ZeroTotals
       IN  /\ node_totals' = totals
           /\ stdout' = stdout
                \o (IF listed THEN <<Line("node header"), Line("-")>> \o NodeRows(node_resources)
                    ELSE IF args.wide THEN <<Line("No worker node resources found")>>
                    ELSE <<>>)
                \o <<Line("SUMMARY:"), Line("="),
                     [line |-> "Total Container CPU Requests", value |-> total_cpu],
                     [line |-> "Total Container Memory Requests", value |-> total_memory]>>
                \o (IF listed
                    THEN <<Line("Cluster Worker Node Resources:"),
                           [line |-> "Total Allocatable CPU", value |-> totals.total_alloc_cpu],
                           [line |-> "Total Allocatable Memory", value |-> totals.total_alloc_mem],
                           [line |-> "Total Node Capacity CPU", value |-> totals.total_capacity_cpu],
                           [line |-> "Total Node Capacity Memory", value |-> totals.total_capacity_mem]>>
                         \o (IF Positive(totals.total_alloc_cpu)
                             THEN <<[line |-> "CPU Request Utilization",
                                     requested |-> total_cpu, of |-> totals.total_alloc_cpu]>>
                             ELSE <<>>)
                         \o (IF Positive(totals.total_alloc_mem)
                             THEN <<[line |-> "Memory Request Utilization",
                                     requested |-> total_memory, of |-> totals.total_alloc_mem]>>
                             ELSE <<>>)
                    ELSE <<>>)
                \o <<[line |-> "Containers processed", count |-> Len(containers)]>>
    /\ exit_code' = 0
    /\ pc' = "done"
    /\ UNCHANGED <<locals, args, pod_data, containers, total_cpu, total_memory, node_data,
                   node_resources, stderr, kubectl, callVars>>

Next ==
    \/ ParseArguments
    \/ GetPodData
    \/ ParseContainerResources
    \/ PrintContainers
    \/ GetNodeResources
    \/ PrintSummary

Spec == Init /\ [][Next]_vars

(***************************************************************************)
(* The claims about the normalizers, checked under SpecCalls.              *)
(***************************************************************************)
\* C1: convert_memory_to_mebibytes never raises: on every input, a string
\* with a Gi/Mi/Ki marker and no parseable magnitude and a value that is
\* no string included, it returns a number.
C1_MemoryNeverRaises ==
    op = "convert_memory_to_mebibytes" => out[1].exc = "none"

\* C2: convert_cpu_to_millicores never raises: on every input, a value that
\* is no string included, it returns a number.
C2_CpuNeverRaises ==
    op = "convert_cpu_to_millicores" => out[1].exc = "none"

\* the containers of a listing, pod after pod
RECURSIVE ContainersOf(_)
ContainersOf(items) ==
    IF items = <<>> THEN <<>> ELSE Head(items).spec.containers \o ContainersOf(Tail(items))

\* C3: every normalized value is >= 0: in every container record returned
\* cpu_millicores and memory_mebibytes are non-negative, as are the values
\* of every node record, and a container without a request gets 0.
C3_NormalizedNonNegative ==
    /\ op = "parse_container_resources" /\ out[1].exc = "none" =>
           \A i \in 1..Len(out[1].containers) :
               LET c == out[1].containers[i]
               IN  /\ NonNegative(c.cpu_millicores)
                   /\ NonNegative(c.memory_mebibytes)
                   /\ c.cpu = NA => c.cpu_millicores = Zero
                   /\ c.memory = NA => c.memory_mebibytes = Zero
    /\ op = "get_node_resources" /\ out[1].exc = "none" =>
           \A i \in 1..Len(out[1].node_resources) :
               LET r == out[1].node_resources[i].value
               IN  /\ NonNegative(r.allocatable_cpu)
                   /\ NonNegative(r.allocatable_memory)
                   /\ NonNegative(r.capacity_cpu)
                   /\ NonNegative(r.capacity_memory)

\* C6: parse_container_resources never raises, whatever resource fields are
\* missing or malformed, and returns one record for each container of the
\* listing.
C6_AggregatorNeverRaises ==
    op = "parse_container_resources" =>
        /\ out[1].exc = "none"
        /\ Len(out[1].containers) = Len(ContainersOf(inp[1].items))

RECURSIVE SumOf(_, _)
\* the sum of one field of the records, taken from the last record backwards
SumOf(records, field) ==
    IF records = <<>> THEN Zero
    ELSE Add(Last(records)[field], SumOf(Front(records), field))

Workers(items) ==
    SelectSeq(items, LAMBDA node :
                  ControlPlaneLabel \notin DOMAIN Get(node.metadata, "labels", EmptyDict))

\* the outcomes of the four normalizations of a node
NodeOutcomes(node) ==
    [allocatable_cpu    |-> convert_cpu_to_millicores(Get(node.status.allocatable, "cpu", StrVal(<<"0">>))),
     allocatable_memory |-> convert_memory_to_mebibytes(Get(node.status.allocatable, "memory", StrVal(<<"0">>))),
     capacity_cpu       |-> convert_cpu_to_millicores(Get(node.status.capacity, "cpu", StrVal(<<"0">>))),
     capacity_memory    |-> convert_memory_to_mebibytes(Get(node.status.capacity, "memory", StrVal(<<"0">>)))]

NodeRaises(node) == \E f \in DOMAIN NodeOutcomes(node) : NodeOutcomes(node)[f].exc # "none"

RECURSIVE SumOverNodes(_, _)
SumOverNodes(nodes, field) ==
    IF nodes = <<>> THEN Zero
    ELSE Add(NodeOutcomes(Last(nodes))[field].value, SumOverNodes(Front(nodes), field))

\* C8: get_node_resources returns a record for exactly the nodes that carry
\* no control-plane label: a node with the label is never in the result and
\* never in the sums, whatever its resource values (it cannot make the call
\* fail either), and every other node is there once.
C8_ControlPlaneExcluded ==
    op = "get_node_resources" =>
        LET items   == inp[1].items
            workers == Workers(items)
            result  == out[1].node_resources
        IN  /\ \A i \in 1..Len(result) :
                   \A j \in 1..Len(items) :
                       items[j].metadata.name = result[i].key =>
                           ControlPlaneLabel \notin DOMAIN Get(items[j].metadata, "labels", EmptyDict)
            /\ out[1].exc = "none" <=> \A j \in 1..Len(workers) : ~NodeRaises(workers[j])
            /\ out[1].exc = "none" =>
                   /\ Len(result) = Len(workers)
                   /\ \A j \in 1..Len(workers) :
                          /\ result[j].key = workers[j].metadata.name
                          /\ \A f \in DOMAIN result[j].value :
                                 result[j].value[f] = NodeOutcomes(workers[j])[f].value
                   /\ out[1].totals.total_alloc_cpu = SumOverNodes(workers, "allocatable_cpu")
                   /\ out[1].totals.total_alloc_mem = SumOverNodes(workers, "allocatable_memory")
                   /\ out[1].totals.total_capacity_cpu = SumOverNodes(workers, "capacity_cpu")
                   /\ out[1].totals.total_capacity_mem = SumOverNodes(workers, "capacity_memory")

\* a listing with a control-plane node of malformed memory and a worker is
\* aggregated to the worker alone
C8_Witness ==
    /\ op = "get_node_resources"
    /\ out[1].exc = "none"
    /\ Len(out[1].node_resources) = 1
    /\ Len(inp[1].items) = 2
    /\ \E j \in 1..2 :
           /\ ControlPlaneLabel \in DOMAIN Get(inp[1].items[j].metadata, "labels", EmptyDict)
           /\ NodeRaises(inp[1].items[j])
    /\ Positive(out[1].totals.total_alloc_cpu)

\* C9: for every whole-core count N >= 0, convert_cpu_to_millicores(N) =
\* convert_cpu_to_millicores(str(N)) = 1000 * N.
C9_WholeCores ==
    op = "cpu_whole_cores" =>
        /\ out[1] = Return(FromInt(1000 * arg[1]))
        /\ out[2] = Return(FromInt(1000 * arg[1]))

\* 12 and "12" both give 12000
C9_Witness ==
    /\ op = "cpu_whole_cores"
    /\ arg[1] = 12
    /\ inp = <<IntVal(12), StrVal(<<"1", "2">>)>>
    /\ out[1].value = FromInt(12000)
    /\ out[2].value = FromInt(12000)

\* C10: k Gi, (1024 k) Mi, (1048576 k) Ki and the byte count k * 2^30 all
\* give 1024 k MiB, whatever the case of the marker; of two markers in one
\* string Gi is taken before Mi and Mi before Ki.
C10_UnitsConsistent ==
    /\ op = "memory_units" =>
           \A i \in 1..4 : out[i] = Return(FromInt(1024 * arg[1]))
    /\ op = "memory_markers" =>
           /\ out[1].exc = "none"
           /\ IF <<"G", "I">> \in {arg[2], arg[3]} THEN out[1].value = FromInt(1024 * arg[1])
              ELSE IF <<"M", "I">> \in {arg[2], arg[3]} THEN out[1].value = FromInt(arg[1])
              ELSE MulInt(out[1].value, 1024) = FromInt(arg[1])

\* 3gI, 3072Mi, 3145728KI and 3221225472 all give 3072
C10_Witness ==
    /\ op = "memory_units"
    /\ arg[1] = 3
    /\ inp[1].s = <<"3", "g", "I">>
    /\ inp[4].s = <<"3", "2", "2", "1", "2", "2", "5", "4", "7", "2">>
    /\ \A i \in 1..4 : out[i].value = FromInt(3072)

(***************************************************************************)
(* The claims about a run of main(), checked under Spec.                   *)
(***************************************************************************)
\* the retrieval of "pods" or of "nodes" has failed: kubectl ended with a
\* non-zero status, or with output that json.loads does not decode
Failed(what) ==
    \E i \in 1..Len(kubectl) :
        /\ kubectl[i].cmd[3] = what
        /\ kubectl[i].returncode # 0 \/ ~kubectl[i].decodes

\* the rows of one kind written to standard output
Rows(kind) == SelectSeq(stdout, LAMBDA l : l.line = kind)

\* C4 as stated: a failure of either retrieval aborts the run before any
\* normalization: no run, --wide included, has normalized the container
\* quantities or printed report rows when a retrieval fails.
C4_FailureBeforeNormalization ==
    Failed("pods") \/ Failed("nodes") =>
        /\ "containers" \notin locals
        /\ Rows("container") = <<>>

\* C4 as amended: a failure of the pod retrieval ends the run before any
\* normalization and any row; a failure of the node retrieval, which only
\* a --wide run makes, ends the run after the container quantities were
\* normalized and their rows printed, and before any node quantity is
\* normalized.
C4_PodFailureBeforeNormalization ==
    /\ Failed("pods") =>
           /\ pc = "exited"
           /\ exit_code = 1
           /\ Len(kubectl) = 1
           /\ "containers" \notin locals
           /\ Rows("container") = <<>>
    /\ Failed("nodes") =>
           /\ pc = "exited"
           /\ exit_code = 1
           /\ args.wide
           /\ Len(kubectl) = 2
           /\ "containers" \in locals
           /\ Len(Rows("container")) = Len(containers)
           /\ "node_resources" \notin locals
           /\ Rows("node") = <<>>

\* the node retrieval fails in a --wide run that has normalized and printed
\* a container
C4_Witness ==
    /\ Failed("nodes")
    /\ pc = "exited"
    /\ Len(containers) = 1
    /\ Len(Rows("container")) = 1

\* C5: when the pod or the node retrieval ends with a non-zero status or an
\* undecodable payload, the error is reported on standard error and not on
\* standard output, the process ends with a non-zero status, no retrieval
\* is made again and nothing of the failed response reaches the aggregator.
C5_FailureReportedOnStderr ==
    Failed("pods") \/ Failed("nodes") =>
        /\ pc = "exited"
        /\ exit_code # 0
        /\ stderr # <<>>
        /\ Rows("Error getting pod data") = <<>>
        /\ Rows("Error getting node data") = <<>>
        /\ \A i, j \in 1..Len(kubectl) : kubectl[i].cmd = kubectl[j].cmd => i = j
        /\ Failed("pods") => "pod_data" \notin locals /\ "containers" \notin locals
        /\ Failed("nodes") => "node_data" \notin locals /\ "node_resources" \notin locals

=============================================================================
